---- MODULE Spec2Model ----
(***************************************************************************)
(* Finance tracker, server side: the auth middleware, the ownership        *)
(* middleware, the Transaction schema and the two transaction routers that *)
(* the repository holds (server/routes/transactions.js, which relies on    *)
(* the middleware and on a document path named `user`, and the router of   *)
(* part_001, which checks ownership in its queries on the path `userId`).  *)
(* Both routers work on the one Transaction model of the repository.       *)
(*                                                                         *)
(* `txDown` says that the transactions collection is out of reach: every   *)
(* find, save and delete on it rejects, and the handler's catch answers.   *)
(*                                                                         *)
(* One request is served per step: a handler action models the whole       *)
(* middleware chain and route handler of one HTTP request.  `req` and      *)
(* `res` hold the request being served and its response; RequestEnds       *)
(* discards them, as Express does with its per-request objects.            *)
(***************************************************************************)
EXTENDS Integers, Sequences, FiniteSets, TLC

VARIABLES users, store, nextId, strictQuery, txDown, req, res, range, fetched, stats,
          currentUser, authLoading, storedToken, authPending, effectRan, loggedOut,
          reportsStats, reportsLoading, dateRange, statsPending, nextRequest

vars == <<users, store, nextId, strictQuery, txDown, req, res, range, fetched, stats,
          currentUser, authLoading, storedToken, authPending, effectRan, loggedOut,
          reportsStats, reportsLoading, dateRange, statsPending, nextRequest>>

\* the server's side of the state
serverVars == <<users, store, nextId, strictQuery, txDown, req, res, range, fetched, stats>>

\* the browser's side: the state of AuthProvider (user, loading, the token of
\* local storage, its requests in flight) and of the Reports page
authVars == <<currentUser, authLoading, storedToken, authPending, effectRan, loggedOut>>
reportsVars == <<reportsStats, reportsLoading, dateRange, statsPending, nextRequest>>
clientVars == <<authVars, reportsVars>>

\* what a GET /stats adds to a request: its query string, the documents its
\* find() returned in the order returned, and the body of its answer
statsVars == <<range, fetched, stats>>

-----------------------------------------------------------------------------
(* Bounds and value sets                                                   *)

\* number of ObjectIds the store hands out in one behaviour
MaxTx == 2

\* the identities of the credential store
Users == {"alice", "bob"}

\* an optional (possibly undefined) JavaScript value: <<>> or <<v>>
None == <<>>
Some(v) == <<v>>

\* _id values; MalformedId stands for a :id parameter that is no ObjectId
TxIds == 1..MaxTx
MalformedId == 0
IdParams == TxIds \cup {MalformedId}

Types == {"income", "expense"}
Dates == {1, 2}

-----------------------------------------------------------------------------
(* Authorization header and bearer token                                   *)

EmptyToken == [sig |-> "empty", userId |-> "nobody"]

\* signed tokens: sig is "ok", "expired" or "forged" (bad signature)
Jwts == [sig : {"ok", "expired", "forged"}, userId : Users]

NoHeader == [present |-> FALSE, prefix |-> FALSE, token |-> EmptyToken]

AllHeaders ==
    {NoHeader} \cup [present : {TRUE}, prefix : BOOLEAN, token : Jwts \cup {EmptyToken}]

Bearer(u) == [present |-> TRUE, prefix |-> TRUE, token |-> [sig |-> "ok", userId |-> u]]

\* req.header('Authorization')?.replace('Bearer ', '')
\* replace() only strips the prefix when it is there: a header that is the
\* bare token yields the same token string.
headerToken(h) == IF h.present THEN Some(h.token) ELSE None

\* a verification that checks the signature and forgets the expiry
jwtVerifyIgnoresExpiry(tok) == tok.sig = "forged"

\* jwt.verify: throws unless the signature is good and the token unexpired
jwtVerifyThrows(tok) == tok.sig # "ok"

\* an auth that trusts the token and does not consult the credential store
authSkipsUserLookup(h, us) ==
    LET token == headerToken(h) IN
    IF token = None \/ token[1].sig = "empty"
    THEN [status |-> 401, user |-> None]
    ELSE IF jwtVerifyThrows(token[1])
    THEN [status |-> 401, user |-> None]
    ELSE [status |-> 0, user |-> Some(token[1].userId)]

\* the outcome of the auth middleware: status 0 stands for next()
auth(h, us) ==
    LET token == headerToken(h) IN
    IF token = None \/ token[1].sig = "empty"
    THEN [status |-> 401, user |-> None]
    ELSE IF jwtVerifyThrows(token[1])
    THEN [status |-> 401, user |-> None]
    ELSE IF token[1].userId \notin us
    THEN [status |-> 401, user |-> None]
    ELSE [status |-> 0, user |-> Some(token[1].userId)]

-----------------------------------------------------------------------------
(* The Transaction schema                                                  *)

SchemaPaths == {"userId", "type", "amount", "category", "note", "date"}

\* a request body: every field optional
EmptyBody ==
    [userId |-> None, type |-> None, amount |-> None, category |-> None,
     note |-> None, date |-> None]

\* doc.path of a hydrated document: undefined for a path the schema lacks
DocGet(d, p) == IF p \in DOMAIN d THEN d[p] ELSE None

\* new Transaction(obj) in strict mode: paths outside the schema are dropped,
\* and date defaults to Date.now
NewDoc(obj, now) ==
    [p \in SchemaPaths |->
        IF p \in DOMAIN obj /\ obj[p] # None THEN obj[p]
        ELSE IF p = "date" THEN Some(now)
        ELSE None]

amountMin == 0

\* the validators of the schema: required, enum, min
ValidDoc(d) ==
    /\ d["userId"] # None
    /\ d["type"] # None /\ d["type"][1] \in Types
    /\ d["amount"] # None /\ d["amount"][1] >= amountMin
    /\ d["category"] # None
    /\ d["date"] # None

\* the JSON of a stored document
Json(i, d) ==
    [_id |-> i, userId |-> d["userId"], type |-> d["type"], amount |-> d["amount"],
     category |-> d["category"], note |-> d["note"], date |-> d["date"]]

-----------------------------------------------------------------------------
(* Queries on the Transaction collection                                   *)

\* does document d match the filter {path: value}?  With strictQuery on,
\* Mongoose strips a filter path that the schema lacks, so that the filter
\* matches every document; with it off the path is sent to the database,
\* where no stored document carries it.
Matches(d, path, value, sq) ==
    IF path \notin SchemaPaths /\ sq THEN TRUE ELSE DocGet(d, path) = Some(value)

\* Transaction.find({path: value}): the ids of the matching documents
Find(st, path, value, sq) == {i \in DOMAIN st : Matches(st[i], path, value, sq)}

\* Transaction.findOne({_id: id, userId: uid}); id is a well-formed ObjectId
FindOne(st, id, uid) ==
    IF id \in DOMAIN st /\ st[id]["userId"] = Some(uid) THEN Some(id) ELSE None

Perms(S) ==
    {f \in [1..Cardinality(S) -> S] :
        \A i, j \in 1..Cardinality(S) : i # j => f[i] # f[j]}

\* .sort({date: -1}): the orders the database may return; ties in any order
SortDateDesc(st, S) ==
    {f \in Perms(S) :
        \A i \in 1..(Cardinality(S) - 1) : st[f[i]]["date"][1] >= st[f[i + 1]]["date"][1]}

JsonList(st, f) == [k \in 1..Len(f) |-> Json(f[k], st[f[k]])]

\* a removal that takes the older documents along
WithoutUpTo(st, id) == [i \in DOMAIN st \ (1..id) |-> st[i]]

Without(st, id) == [i \in DOMAIN st \ {id} |-> st[i]]

With(st, id, d) == [i \in DOMAIN st \cup {id} |-> IF i = id THEN d ELSE st[i]]

-----------------------------------------------------------------------------
(* Requests and responses                                                  *)

NoId == -1

NoReq ==
    [router |-> "none", op |-> "none", header |-> NoHeader, id |-> NoId,
     body |-> EmptyBody]

Request(router, op, h, id, b) ==
    [router |-> router, op |-> op, header |-> h, id |-> id, body |-> b]

\* reached: the last stage of the chain that ran ("auth", "ownership" or
\* "handler"); user: req.user; docs: the documents of the JSON answer
NoRes == [status |-> 0, reached |-> "none", user |-> None, docs |-> <<>>]

Reply(status, reached, user, docs) ==
    [status |-> status, reached |-> reached, user |-> user, docs |-> docs]

\* req.query of a request that carries neither startDate nor endDate
NoRange == [startDate |-> None, endDate |-> None]

-----------------------------------------------------------------------------
(* middleware/auth.js: verifyTransactionOwnership                          *)

\* status 0 stands for next() with req.transaction attached; a findById that
\* rejects (no ObjectId, or the collection out of reach) ends in the catch
verifyTransactionOwnership(st, id, uid) ==
    IF txDown \/ id = MalformedId THEN 500
    ELSE IF id \notin DOMAIN st THEN 404
    ELSE IF DocGet(st[id], "user") = None THEN 500
    ELSE IF DocGet(st[id], "user")[1] # uid THEN 403
    ELSE 0

-----------------------------------------------------------------------------
(* The steps shared by the handler actions                                 *)

\* the server takes up request rq and answers rs, leaving the store as st
Serve(rq, rs, st, nid) ==
    /\ req = NoReq
    /\ req' = rq
    /\ res' = rs
    /\ store' = st
    /\ nextId' = nid
    /\ UNCHANGED <<users, strictQuery, txDown, statsVars, clientVars>>

\* an answer that leaves the collection alone
Answer(rq, rs) == Serve(rq, rs, store, nextId)

\* transaction.save() of a new document: the store hands out the next _id
Insert(rq, reached, uid, d) ==
    /\ nextId < MaxTx
    /\ Serve(rq, Reply(201, reached, Some(uid), <<Json(nextId + 1, d)>>),
             With(store, nextId + 1, d), nextId + 1)

-----------------------------------------------------------------------------
(* server/routes/transactions.js: router.use(auth), then the routes        *)

\* {...req.body, user: req.user._id}
SrvCreateObject(b, uid) ==
    [p \in DOMAIN b \cup {"user"} |-> IF p = "user" THEN Some(uid) ELSE b[p]]

\* findByIdAndUpdate(id, req.body, {new: true}): the schema paths of the body
\* are set, without running the validators
SrvUpdatedDoc(d, b) ==
    [p \in SchemaPaths |-> IF p \in DOMAIN b /\ b[p] # None THEN b[p] ELSE d[p]]

SrvList(h) ==
    LET a == auth(h, users)
        rq == Request("server", "list", h, NoId, EmptyBody)
    IN  IF a.status # 0
        THEN Answer(rq, Reply(a.status, "auth", None, <<>>))
        ELSE IF txDown
        THEN Answer(rq, Reply(500, "handler", a.user, <<>>))
        ELSE \E f \in SortDateDesc(store, Find(store, "user", a.user[1], strictQuery)) :
                Answer(rq, Reply(200, "handler", a.user, JsonList(store, f)))

SrvCreate(h, b, now) ==
    LET a == auth(h, users)
        rq == Request("server", "create", h, NoId, b)
    IN  IF a.status # 0
        THEN Answer(rq, Reply(a.status, "auth", None, <<>>))
        ELSE LET d == NewDoc(SrvCreateObject(b, a.user[1]), now)
             IN  IF ValidDoc(d) /\ ~txDown
                 THEN Insert(rq, "handler", a.user[1], d)
                 ELSE Answer(rq, Reply(500, "handler", a.user, <<>>))

SrvGetOne(h, id) ==
    LET a == auth(h, users)
        rq == Request("server", "get", h, id, EmptyBody)
    IN  IF a.status # 0
        THEN Answer(rq, Reply(a.status, "auth", None, <<>>))
        ELSE LET o == verifyTransactionOwnership(store, id, a.user[1])
             IN  IF o # 0
                 THEN Answer(rq, Reply(o, "ownership", a.user, <<>>))
                 ELSE Answer(rq, Reply(200, "handler", a.user, <<Json(id, store[id])>>))

SrvUpdate(h, id, b) ==
    LET a == auth(h, users)
        rq == Request("server", "update", h, id, b)
    IN  IF a.status # 0
        THEN Answer(rq, Reply(a.status, "auth", None, <<>>))
        ELSE LET o == verifyTransactionOwnership(store, id, a.user[1])
             IN  IF o # 0
                 THEN Answer(rq, Reply(o, "ownership", a.user, <<>>))
                 ELSE LET d == SrvUpdatedDoc(store[id], b)
                      IN  Serve(rq, Reply(200, "handler", a.user, <<Json(id, d)>>),
                                With(store, id, d), nextId)

SrvDelete(h, id) ==
    LET a == auth(h, users)
        rq == Request("server", "delete", h, id, EmptyBody)
    IN  IF a.status # 0
        THEN Answer(rq, Reply(a.status, "auth", None, <<>>))
        ELSE LET o == verifyTransactionOwnership(store, id, a.user[1])
             IN  IF o # 0
                 THEN Answer(rq, Reply(o, "ownership", a.user, <<>>))
                 ELSE Serve(rq, Reply(200, "handler", a.user, <<>>),
                            Without(store, id), nextId)

-----------------------------------------------------------------------------
(* part_001: the router whose routes each name auth and query on userId    *)

\* !type || !amount || !category, then the type and amount checks
P1CreateRejects(b) ==
    \/ b.type = None \/ b.amount = None \/ b.amount[1] = 0 \/ b.category = None
    \/ b.type[1] \notin Types
    \/ b.amount[1] <= 0

\* the document handed to new Transaction(...)
P1CreateObject(b, uid) ==
    [userId |-> Some(uid), type |-> b.type, amount |-> b.amount,
     category |-> b.category, note |-> b.note, date |-> b.date]

\* the checks of the update route, in the order of the code
P1UpdateRejects(b) ==
    \/ b.type # None /\ b.type[1] \notin Types
    \/ b.amount # None /\ b.amount[1] <= 0

\* an update route that also copies the owner named in the body
P1UpdatedFieldsWithOwner == {"userId", "type", "amount", "category", "note", "date"}

\* the fields the update route assigns
P1UpdatedFields == {"type", "amount", "category", "note", "date"}

P1UpdatedDoc(d, b) ==
    [p \in SchemaPaths |-> IF p \in P1UpdatedFields /\ b[p] # None THEN b[p] ELSE d[p]]

P1List(h) ==
    LET a == auth(h, users)
        rq == Request("part_001", "list", h, NoId, EmptyBody)
    IN  IF a.status # 0
        THEN Answer(rq, Reply(a.status, "auth", None, <<>>))
        ELSE IF txDown
        THEN Answer(rq, Reply(500, "handler", a.user, <<>>))
        ELSE \E f \in SortDateDesc(store, Find(store, "userId", a.user[1], strictQuery)) :
                Answer(rq, Reply(200, "handler", a.user, JsonList(store, f)))

P1GetOne(h, id) ==
    LET a == auth(h, users)
        rq == Request("part_001", "get", h, id, EmptyBody)
    IN  IF a.status # 0
        THEN Answer(rq, Reply(a.status, "auth", None, <<>>))
        ELSE IF txDown \/ id \notin TxIds
        THEN Answer(rq, Reply(500, "handler", a.user, <<>>))
        ELSE IF FindOne(store, id, a.user[1]) = None
        THEN Answer(rq, Reply(404, "handler", a.user, <<>>))
        ELSE Answer(rq, Reply(200, "handler", a.user, <<Json(id, store[id])>>))

P1Create(h, b, now) ==
    LET a == auth(h, users)
        rq == Request("part_001", "create", h, NoId, b)
    IN  IF a.status # 0
        THEN Answer(rq, Reply(a.status, "auth", None, <<>>))
        ELSE IF P1CreateRejects(b)
        THEN Answer(rq, Reply(400, "handler", a.user, <<>>))
        ELSE LET d == NewDoc(P1CreateObject(b, a.user[1]), now)
             IN  IF ValidDoc(d) /\ ~txDown
                 THEN Insert(rq, "handler", a.user[1], d)
                 ELSE Answer(rq, Reply(400, "handler", a.user, <<>>))

\* an update route that saves the document as soon as the type is assigned,
\* before the amount is looked at
P1UpdateSavesEarly(h, id, b) ==
    LET a == auth(h, users)
        rq == Request("part_001", "update", h, id, b)
    IN  IF a.status # 0
        THEN Answer(rq, Reply(a.status, "auth", None, <<>>))
        ELSE IF txDown \/ id = MalformedId
        THEN Answer(rq, Reply(400, "handler", a.user, <<>>))
        ELSE IF FindOne(store, id, a.user[1]) = None
        THEN Answer(rq, Reply(404, "handler", a.user, <<>>))
        ELSE IF b.type # None /\ b.type[1] \notin Types
        THEN Answer(rq, Reply(400, "handler", a.user, <<>>))
        ELSE LET typed == [store[id] EXCEPT !["type"] = IF b.type # None THEN b.type ELSE @]
                 d == P1UpdatedDoc(store[id], b)
             IN  IF P1UpdateRejects(b) \/ ~ValidDoc(d)
                 THEN Serve(rq, Reply(400, "handler", a.user, <<>>),
                            With(store, id, typed), nextId)
                 ELSE Serve(rq, Reply(200, "handler", a.user, <<Json(id, d)>>),
                            With(store, id, d), nextId)

P1Update(h, id, b) ==
    LET a == auth(h, users)
        rq == Request("part_001", "update", h, id, b)
    IN  IF a.status # 0
        THEN Answer(rq, Reply(a.status, "auth", None, <<>>))
        ELSE IF txDown \/ id = MalformedId
        THEN Answer(rq, Reply(400, "handler", a.user, <<>>))
        ELSE IF FindOne(store, id, a.user[1]) = None
        THEN Answer(rq, Reply(404, "handler", a.user, <<>>))
        ELSE IF P1UpdateRejects(b)
        THEN Answer(rq, Reply(400, "handler", a.user, <<>>))
        ELSE LET d == P1UpdatedDoc(store[id], b)
             IN  IF ValidDoc(d)
                 THEN Serve(rq, Reply(200, "handler", a.user, <<Json(id, d)>>),
                            With(store, id, d), nextId)
                 ELSE Answer(rq, Reply(400, "handler", a.user, <<>>))

P1Delete(h, id) ==
    LET a == auth(h, users)
        rq == Request("part_001", "delete", h, id, EmptyBody)
    IN  IF a.status # 0
        THEN Answer(rq, Reply(a.status, "auth", None, <<>>))
        ELSE IF txDown \/ id = MalformedId
        THEN Answer(rq, Reply(500, "handler", a.user, <<>>))
        ELSE IF FindOne(store, id, a.user[1]) = None
        THEN Answer(rq, Reply(404, "handler", a.user, <<>>))
        ELSE Serve(rq, Reply(200, "handler", a.user, <<>>), Without(store, id), nextId)

-----------------------------------------------------------------------------
(* GET /stats: the aggregation of the fetched transactions.  f is the      *)
(* array that Transaction.find(query) returned, in the order returned.     *)

IsIncome(d) == d["type"] = Some("income")

RECURSIVE SumAmount(_)
SumAmount(f) == IF f = <<>> THEN 0 ELSE Head(f)["amount"][1] + SumAmount(Tail(f))

\* the YYYY-MM of a date, as the number of its month: two dates to a month
MonthKey(date) == (date + 1) \div 2

\* Object.keys of an object filled in the order ks: first occurrences
RECURSIVE Distinct(_)
Distinct(ks) ==
    IF ks = <<>> THEN <<>>
    ELSE LET r == Distinct(SubSeq(ks, 1, Len(ks) - 1))
             k == ks[Len(ks)]
         IN  IF \E i \in 1..Len(r) : r[i] = k THEN r ELSE Append(r, k)

\* a summary whose netBalance adds the expenses instead of taking them off
summaryAddsExpense(f) ==
    LET totalIncome == SumAmount(SelectSeq(f, IsIncome))
        totalExpense == SumAmount(SelectSeq(f, LAMBDA d : ~IsIncome(d)))
    IN  [totalIncome |-> totalIncome, totalExpense |-> totalExpense,
         netBalance |-> totalIncome + totalExpense]

\* the reduce of both routers: type 'income' adds to totalIncome, any other
\* type to totalExpense; netBalance is their difference
summary(f) ==
    LET totalIncome == SumAmount(SelectSeq(f, IsIncome))
        totalExpense == SumAmount(SelectSeq(f, LAMBDA d : ~IsIncome(d)))
    IN  [totalIncome |-> totalIncome, totalExpense |-> totalExpense,
         netBalance |-> totalIncome - totalExpense]

\* Object.entries(categoryStats) of part_001: one entry per category, in the
\* order in which the categories first occur in f
categoryStats(f) ==
    LET ks == Distinct([k \in 1..Len(f) |-> f[k]["category"][1]])
        of(c) == SelectSeq(f, LAMBDA d : d["category"] = Some(c))
    IN  [i \in 1..Len(ks) |->
            [category |-> ks[i],
             income |-> SumAmount(SelectSeq(of(ks[i]), IsIncome)),
             expense |-> SumAmount(SelectSeq(of(ks[i]), LAMBDA d : ~IsIncome(d)))]]

\* Object.entries(monthlyStats) of part_001, and of monthlyData in
\* server/routes/transactions.js before it is formatted
monthlyStats(f) ==
    LET ks == Distinct([k \in 1..Len(f) |-> MonthKey(f[k]["date"][1])])
        of(m) == SelectSeq(f, LAMBDA d : MonthKey(d["date"][1]) = m)
    IN  [i \in 1..Len(ks) |->
            [month |-> ks[i],
             income |-> SumAmount(SelectSeq(of(ks[i]), IsIncome)),
             expense |-> SumAmount(SelectSeq(of(ks[i]), LAMBDA d : ~IsIncome(d)))]]

\* .sort((a, b) => a.month.localeCompare(b.month)), a stable sort
RECURSIVE sortByMonth(_)
sortByMonth(s) ==
    IF s = <<>> THEN <<>>
    ELSE LET r == sortByMonth(SubSeq(s, 1, Len(s) - 1))
             x == s[Len(s)]
             n == Cardinality({i \in 1..Len(r) : r[i].month <= x.month})
         IN  SubSeq(r, 1, n) \o <<x>> \o SubSeq(r, n + 1, Len(r))

\* .sort((a, b) => b.total - a.total), a stable sort
RECURSIVE sortByTotal(_)
sortByTotal(s) ==
    IF s = <<>> THEN <<>>
    ELSE LET r == sortByTotal(SubSeq(s, 1, Len(s) - 1))
             x == s[Len(s)]
             n == Cardinality({i \in 1..Len(r) : r[i].total >= x.total})
         IN  SubSeq(r, 1, n) \o <<x>> \o SubSeq(r, n + 1, Len(r))

\* monthly records left in the order in which the months were first met
monthlyDataInFetchOrder(f) ==
    LET s == monthlyStats(f)
    IN  [i \in 1..Len(s) |->
            [month |-> s[i].month, income |-> s[i].income, expense |-> s[i].expense,
             balance |-> s[i].income - s[i].expense]]

\* part_001: the entries sorted by month, each with its balance
monthlyData(f) ==
    LET s == sortByMonth(monthlyStats(f))
    IN  [i \in 1..Len(s) |->
            [month |-> s[i].month, income |-> s[i].income, expense |-> s[i].expense,
             balance |-> s[i].income - s[i].expense]]

\* part_001: the entries of categoryStats, each with its total
categoryData(f) ==
    LET s == categoryStats(f)
    IN  [i \in 1..Len(s) |->
            [category |-> s[i].category, income |-> s[i].income,
             expense |-> s[i].expense, total |-> s[i].income + s[i].expense]]

\* .slice(0, 5)
topCount == 5

\* an answer whose topCategories are cut from the unsorted categoryData
P1StatsBodyTopUnsorted(f) ==
    LET cd == categoryData(f)
        months == monthlyData(f)
    IN  [summary |-> summary(f),
         monthlyData |-> months,
         categoryData |-> cd,
         topCategories |-> SubSeq(cd, 1, IF Len(cd) < topCount THEN Len(cd) ELSE topCount),
         monthlyTrend |-> [i \in 1..Len(months) |->
                              [month |-> months[i].month, balance |-> months[i].balance]]]

\* part_001: the object handed to res.json.  categoryData.sort(...) sorts the
\* array in place before the object is serialised, so the categoryData of the
\* answer is in the order of topCategories
P1StatsBody(f) ==
    LET sorted == sortByTotal(categoryData(f))
        months == monthlyData(f)
    IN  [summary |-> summary(f),
         monthlyData |-> months,
         categoryData |-> sorted,
         topCategories |-> SubSeq(sorted, 1, IF Len(sorted) < topCount THEN Len(sorted) ELSE topCount),
         monthlyTrend |-> [i \in 1..Len(months) |->
                              [month |-> months[i].month, balance |-> months[i].balance]]]

\* server/routes/transactions.js: the expense transactions alone, summed by
\* category in the order in which the categories first occur
formattedCategoryData(f) ==
    LET e == SelectSeq(f, LAMBDA d : d["type"] = Some("expense"))
        ks == Distinct([k \in 1..Len(e) |-> e[k]["category"][1]])
    IN  [i \in 1..Len(ks) |->
            [category |-> ks[i],
             expense |-> SumAmount(SelectSeq(e, LAMBDA d : d["category"] = Some(ks[i])))]]

\* monthly records whose balance stays at the 0 it is created with
formattedMonthlyDataStaleBalance(f) ==
    LET s == monthlyStats(f)
    IN  sortByMonth([i \in 1..Len(s) |->
            [month |-> s[i].month, income |-> s[i].income, expense |-> s[i].expense,
             balance |-> 0]])

\* server/routes/transactions.js: {month, ...data}, then sorted by month
formattedMonthlyData(f) ==
    LET s == monthlyStats(f)
    IN  sortByMonth([i \in 1..Len(s) |->
            [month |-> s[i].month, income |-> s[i].income, expense |-> s[i].expense,
             balance |-> s[i].income - s[i].expense]])

\* server/routes/transactions.js: the object handed to res.json
SrvStatsBody(f) ==
    [summary |-> summary(f),
     categoryData |-> formattedCategoryData(f),
     monthlyData |-> formattedMonthlyData(f)]

\* the answer of a GET /stats: as Serve, with what the request adds
ServeStats(rq, rs, q, f, body) ==
    /\ req = NoReq
    /\ req' = rq
    /\ res' = rs
    /\ range' = q
    /\ fetched' = f
    /\ stats' = body
    /\ UNCHANGED <<users, store, nextId, strictQuery, txDown, clientVars>>

\* server/routes/transactions.js: find({user: req.user._id, date: {$gte}});
\* endDate is not read
SrvStatsQuery(st, uid, q, sq) ==
    {i \in Find(st, "user", uid, sq) :
        q.startDate = None \/ st[i]["date"][1] >= q.startDate[1]}

\* server/routes/transactions.js: router.use(auth), verifyStatsAccess (which
\* passes every request that auth let through), then the handler; find()
\* without a sort may return the documents in any order
SrvStats(h, q) ==
    LET a == auth(h, users)
        rq == Request("server", "stats", h, NoId, EmptyBody)
    IN  IF a.status # 0
        THEN ServeStats(rq, Reply(a.status, "auth", None, <<>>), q, <<>>, None)
        ELSE IF txDown
        THEN ServeStats(rq, Reply(500, "handler", a.user, <<>>), q, <<>>, None)
        ELSE \E f \in Perms(SrvStatsQuery(store, a.user[1], q, strictQuery)) :
                ServeStats(rq, Reply(200, "handler", a.user, <<>>), q, JsonList(store, f),
                           Some([router |-> "server", body |-> SrvStatsBody(JsonList(store, f))]))

\* part_001: find({userId: req.user._id, date: {$gte, $lte}})
P1StatsQuery(st, uid, q) ==
    {i \in Find(st, "userId", uid, FALSE) :
        /\ q.startDate = None \/ st[i]["date"][1] >= q.startDate[1]
        /\ q.endDate = None \/ st[i]["date"][1] <= q.endDate[1]}

\* part_001: the handler of router.get('/stats', auth, ...)
P1Stats(h, q) ==
    LET a == auth(h, users)
        rq == Request("part_001", "stats", h, NoId, EmptyBody)
    IN  IF a.status # 0
        THEN ServeStats(rq, Reply(a.status, "auth", None, <<>>), q, <<>>, None)
        ELSE IF txDown
        THEN ServeStats(rq, Reply(500, "handler", a.user, <<>>), q, <<>>, None)
        ELSE \E f \in Perms(P1StatsQuery(store, a.user[1], q)) :
                ServeStats(rq, Reply(200, "handler", a.user, <<>>), q, JsonList(store, f),
                           Some([router |-> "part_001", body |-> P1StatsBody(JsonList(store, f))]))

\* the GET routes of each router in the order in which they are registered
P1GetRoutes == <<"/", "/:id", "/stats">>

SrvGetRoutes == <<"/", "/stats", "/:id">>

\* path-to-regexp: a literal route matches its own path, '/:id' matches any
\* path of one segment
RouteMatches(route, path) == route = path \/ (route = "/:id" /\ path # "/")

\* Express hands the request to the first registered route that matches
Dispatch(routes, path) ==
    routes[CHOOSE i \in 1..Len(routes) :
              /\ RouteMatches(routes[i], path)
              /\ \A j \in 1..(i - 1) : ~RouteMatches(routes[j], path)]

\* req.params.id of a GET /stats that was matched by '/:id': no ObjectId
StatsId == -2

\* GET /stats?startDate=&endDate= sent to the router of part_001
P1GetStats(h, q) ==
    IF Dispatch(P1GetRoutes, "/stats") = "/stats" THEN P1Stats(h, q) ELSE P1GetOne(h, StatsId)

\* GET /stats?startDate=&endDate= sent to server/routes/transactions.js
SrvGetStats(h, q) ==
    IF Dispatch(SrvGetRoutes, "/stats") = "/stats" THEN SrvStats(h, q) ELSE SrvGetOne(h, StatsId)

\* the arrays that the aggregation is checked on
MaxFetched == 3

Amounts == {40, 100}

Categories == {"food", "rent"}

StatDates == {1, 2, 3}

StatTxs ==
    [type : {Some(t) : t \in Types}, amount : {Some(a) : a \in Amounts},
     category : {Some(c) : c \in Categories}, date : {Some(d) : d \in StatDates}]

\* Transaction.find(query) comes upon one more matching document
Fetch(t) ==
    /\ stats = None
    /\ Len(fetched) < MaxFetched
    /\ fetched' = Append(fetched, t)
    /\ UNCHANGED <<users, store, nextId, strictQuery, txDown, req, res, range, stats, clientVars>>

\* the arrays that the top categories are checked on: up to MaxTop
\* transactions over more category labels than topCount.  The code only
\* compares labels for equality, so a new label is always the next of
\* TopLabels.
MaxTop == 6

TopLabels == <<"food", "rent", "fuel", "gift", "fees", "toys">>

TopTxs ==
    {[type |-> Some("income"), amount |-> Some(40), category |-> Some(TopLabels[k]),
      date |-> Some(1)] : k \in 1..Len(TopLabels)}
    \cup
    {[type |-> Some("expense"), amount |-> Some(100), category |-> Some(TopLabels[k]),
      date |-> Some(3)] : k \in 1..Len(TopLabels)}

\* Transaction.find(query) comes upon one more matching document, of a
\* category already met or of the next new one
FetchLabelled(t) ==
    /\ stats = None
    /\ Len(fetched) < MaxTop
    /\ \E k \in 1..Len(TopLabels) :
          /\ t["category"] = Some(TopLabels[k])
          /\ k <= Cardinality({fetched[i]["category"] : i \in 1..Len(fetched)}) + 1
    /\ fetched' = Append(fetched, t)
    /\ UNCHANGED <<users, store, nextId, strictQuery, txDown, req, res, range, stats, clientVars>>

\* the aggregation of part_001 applied to the array in `fetched`
P1Aggregate ==
    /\ stats = None
    /\ stats' = Some([router |-> "part_001", body |-> P1StatsBody(fetched)])
    /\ UNCHANGED <<users, store, nextId, strictQuery, txDown, req, res, range, fetched, clientVars>>

\* the aggregation of server/routes/transactions.js applied to `fetched`
SrvAggregate ==
    /\ stats = None
    /\ stats' = Some([router |-> "server", body |-> SrvStatsBody(fetched)])
    /\ UNCHANGED <<users, store, nextId, strictQuery, txDown, req, res, range, fetched, clientVars>>

-----------------------------------------------------------------------------
(* The rest of the system                                                  *)

\* DELETE /auth/profile: the account leaves the credential store; the
\* transactions it owns may or may not go with it
DeleteAccount(u, cascade) ==
    /\ req = NoReq
    /\ u \in users
    /\ users' = users \ {u}
    /\ store' = IF cascade
                THEN [i \in {j \in DOMAIN store : store[j]["userId"] # Some(u)} |-> store[i]]
                ELSE store
    /\ UNCHANGED <<nextId, strictQuery, txDown, req, res, statsVars, clientVars>>

\* the transactions collection goes out of reach, or comes back
TxFails ==
    /\ ~txDown
    /\ txDown' = TRUE
    /\ UNCHANGED <<users, store, nextId, strictQuery, req, res, statsVars, clientVars>>

TxRecovers ==
    /\ txDown
    /\ txDown' = FALSE
    /\ UNCHANGED <<users, store, nextId, strictQuery, req, res, statsVars, clientVars>>

\* the response has been sent: the request and response objects are dropped
RequestEnds ==
    /\ req # NoReq
    /\ req' = NoReq
    /\ res' = NoRes
    /\ range' = NoRange
    /\ fetched' = <<>>
    /\ stats' = None
    /\ UNCHANGED <<users, store, nextId, strictQuery, txDown, clientVars>>

-----------------------------------------------------------------------------
(* The client's AuthProvider (client/src/pages/Profile.jsx, lines 262-322). *)
(* An async function is two steps: its call, which sends the request, and   *)
(* its continuation, which runs when the response arrives; responses arrive *)
(* in any order.                                                            *)

\* requests of AuthProvider that may be in flight together
MaxPending == 3

\* the requests in flight q, in the order sent, once the i-th has been answered
Settled(q, i) == SubSeq(q, 1, i - 1) \o SubSeq(q, i + 1, Len(q))

\* a request of AuthProvider awaiting its response: the function that sent it
\* and the account it names (for the profile, the account of the stored token)
AuthRequest(kind, account) == [kind |-> kind, account |-> account]

\* useState(null) and useState(true), before the mount effect has run; tok is
\* what local storage holds when the page loads
AuthProviderStart(tok) ==
    /\ currentUser = None
    /\ authLoading = TRUE
    /\ storedToken = tok
    /\ authPending = <<>>
    /\ effectRan = FALSE
    /\ loggedOut = FALSE

\* the context value's isAuthenticated: !!user
isAuthenticated == currentUser # None

\* {!loading && children}: the pages, and with them every caller of login,
\* register and logout, are drawn only once loading is false
ChildrenRendered == ~authLoading

\* the mount effect: with a token in local storage the profile is fetched,
\* without one loading ends at once
MountEffect ==
    /\ ~effectRan
    /\ effectRan' = TRUE
    /\ IF storedToken # None
       THEN /\ authPending' = Append(authPending, AuthRequest("profile", storedToken[1]))
            /\ UNCHANGED authLoading
       ELSE /\ authLoading' = FALSE
            /\ UNCHANGED authPending
    /\ UNCHANGED <<currentUser, storedToken, loggedOut, reportsVars, serverVars>>

\* fetchUserProfile after its await: the profile becomes the user, or the
\* token is removed; loading ends either way
fetchUserProfile(i, ok) ==
    /\ i \in DOMAIN authPending
    /\ authPending[i].kind = "profile"
    /\ authPending' = Settled(authPending, i)
    /\ currentUser' = IF ok THEN Some(authPending[i].account) ELSE currentUser
    /\ storedToken' = IF ok THEN storedToken ELSE None
    /\ authLoading' = FALSE
    /\ UNCHANGED <<effectRan, loggedOut, reportsVars, serverVars>>

\* a page calls login(email, password) or register(name, email, password): the
\* request leaves
Submit(kind, account) ==
    /\ ChildrenRendered
    /\ Len(authPending) < MaxPending
    /\ authPending' = Append(authPending, AuthRequest(kind, account))
    /\ loggedOut' = FALSE
    /\ UNCHANGED <<currentUser, authLoading, storedToken, effectRan, reportsVars, serverVars>>

login(account) == Submit("login", account)

register(account) == Submit("register", account)

\* login or register after its await: the token is stored and the user set; a
\* rejected request throws to the caller and changes nothing
Submitted(i, ok) ==
    /\ i \in DOMAIN authPending
    /\ authPending[i].kind \in {"login", "register"}
    /\ authPending' = Settled(authPending, i)
    /\ storedToken' = IF ok THEN Some(authPending[i].account) ELSE storedToken
    /\ currentUser' = IF ok THEN Some(authPending[i].account) ELSE currentUser
    /\ UNCHANGED <<authLoading, effectRan, loggedOut, reportsVars, serverVars>>

\* logout: the token is removed and the user cleared
logout ==
    /\ ChildrenRendered
    /\ storedToken' = None
    /\ currentUser' = None
    /\ loggedOut' = TRUE
    /\ UNCHANGED <<authLoading, authPending, effectRan, reportsVars, serverVars>>

-----------------------------------------------------------------------------
(* The client's Reports page (client/src/pages/Dashboard.jsx, lines         *)
(* 198-242 and the range selector of lines 310-320).  Statistics are stood  *)
(* for by the request that fetched them.                                    *)

\* stats requests one visit of the page sends
MaxRequests == 5

\* the options of the range selector
DateRanges == {"3m", "6m", "1y", "all"}

\* getStartDate: the months to go back from today, null for any other range
getStartDate(r) ==
    CASE r = "3m" -> Some(3)
      [] r = "6m" -> Some(6)
      [] r = "1y" -> Some(12)
      [] OTHER -> None

\* a stats request awaiting its response: the order it was sent in and the
\* startDate parameter it carries
StatsCall(id, startDate) == [id |-> id, startDate |-> startDate]

\* useState(null), useState(true), useState('3m'), before the first effect
ReportsStart ==
    /\ reportsStats = None
    /\ reportsLoading = TRUE
    /\ dateRange = "3m"
    /\ statsPending = {}
    /\ nextRequest = 0

\* fetchStats up to its await, called by the effect of a render whose
\* dateRange is r: loading is set and the request leaves
fetchStats(r) ==
    /\ nextRequest < MaxRequests
    /\ reportsLoading' = TRUE
    /\ statsPending' = statsPending \cup {StatsCall(nextRequest, getStartDate(r))}
    /\ nextRequest' = nextRequest + 1

\* the effect of the first render
ReportsMountEffect ==
    /\ nextRequest = 0
    /\ fetchStats(dateRange)
    /\ UNCHANGED <<reportsStats, dateRange, authVars, serverVars>>

\* what the page draws past its loading gate: the charts and the selector;
\* the charts read stats.categoryData, so nothing is drawn while stats is null
SelectorRendered == ~reportsLoading /\ reportsStats # None

\* a selector that is drawn while the page is loading
SelectRangeWhileLoading(r) ==
    /\ r # dateRange
    /\ dateRange' = r
    /\ fetchStats(r)
    /\ UNCHANGED <<reportsStats, authVars, serverVars>>

\* the selector's onChange: setDateRange, then the effect of the new render
SelectRange(r) ==
    /\ SelectorRendered
    /\ r # dateRange
    /\ dateRange' = r
    /\ fetchStats(r)
    /\ UNCHANGED <<reportsStats, authVars, serverVars>>

\* fetchStats after its await: the response's data become the stats, a failure
\* is toasted; loading ends either way
fetchStatsResumes(p, ok) ==
    /\ p \in statsPending
    /\ statsPending' = statsPending \ {p}
    /\ reportsStats' = IF ok THEN Some(p) ELSE reportsStats
    /\ reportsLoading' = FALSE
    /\ UNCHANGED <<dateRange, nextRequest, authVars, serverVars>>

\* the browser side before anything has run, with no token stored
ClientAtRest == AuthProviderStart(None) /\ ReportsStart

-----------------------------------------------------------------------------
(* Specifications                                                          *)

Opt(S) == {None} \cup {Some(v) : v \in S}

\* the requests of the main specification: no header or a good bearer token
Headers == {NoHeader} \cup {Bearer(u) : u \in Users}

Bodies ==
    [userId : Opt(Users), type : Opt(Types \cup {"bogus"}), amount : Opt({-1, 0, 1}),
     category : Opt({"food"}), note : {None}, date : Opt(Dates)]

Init ==
    /\ users = Users
    /\ store = <<>>
    /\ nextId = 0
    /\ strictQuery \in BOOLEAN
    /\ txDown = FALSE
    /\ req = NoReq
    /\ res = NoRes
    /\ range = NoRange
    /\ fetched = <<>>
    /\ stats = None
    /\ ClientAtRest

\* no request is being served
Idle == req = NoReq

Next ==
    \/ Idle /\ \E h \in Headers : SrvList(h)
    \/ Idle /\ \E h \in Headers, b \in Bodies, now \in Dates : SrvCreate(h, b, now)
    \/ Idle /\ \E h \in Headers, id \in IdParams : SrvGetOne(h, id)
    \/ Idle /\ \E h \in Headers, id \in IdParams, b \in Bodies : SrvUpdate(h, id, b)
    \/ Idle /\ \E h \in Headers, id \in IdParams : SrvDelete(h, id)
    \/ Idle /\ \E h \in Headers : P1List(h)
    \/ Idle /\ \E h \in Headers, b \in Bodies, now \in Dates : P1Create(h, b, now)
    \/ Idle /\ \E h \in Headers, id \in IdParams : P1GetOne(h, id)
    \/ Idle /\ \E h \in Headers, id \in IdParams, b \in Bodies : P1Update(h, id, b)
    \/ Idle /\ \E h \in Headers, id \in IdParams : P1Delete(h, id)
    \/ RequestEnds

Spec == Init /\ [][Next]_vars

\* The access-control specification: every shape of Authorization header,
\* accounts that are deleted, and bodies that vary in the owner they name.
AccessBodies ==
    [userId : Opt(Users), type : Opt({"income"}), amount : Opt({1}),
     category : {Some("food")}, note : {None}, date : {None}]

NextAccess ==
    \/ Idle /\ \E h \in AllHeaders : SrvList(h)
    \/ Idle /\ \E h \in AllHeaders, b \in AccessBodies, now \in Dates : SrvCreate(h, b, now)
    \/ Idle /\ \E h \in AllHeaders, id \in IdParams : SrvGetOne(h, id)
    \/ Idle /\ \E h \in AllHeaders, id \in IdParams, b \in AccessBodies : SrvUpdate(h, id, b)
    \/ Idle /\ \E h \in AllHeaders, id \in IdParams : SrvDelete(h, id)
    \/ Idle /\ \E h \in AllHeaders : P1List(h)
    \/ Idle /\ \E h \in AllHeaders, b \in AccessBodies, now \in Dates : P1Create(h, b, now)
    \/ Idle /\ \E h \in AllHeaders, id \in IdParams : P1GetOne(h, id)
    \/ Idle /\ \E h \in AllHeaders, id \in IdParams, b \in AccessBodies : P1Update(h, id, b)
    \/ Idle /\ \E h \in AllHeaders, id \in IdParams : P1Delete(h, id)
    \/ \E u \in Users, cascade \in BOOLEAN : DeleteAccount(u, cascade)
    \/ RequestEnds

SpecAccess == Init /\ [][NextAccess]_vars

\* The specification of failures and of the statistics request: requests of
\* both routers, valid or not, while the collection goes down and comes back.
FaultBodies ==
    [userId : {None}, type : Opt({"income", "bogus"}), amount : Opt({1}),
     category : {Some("food")}, note : {None}, date : Opt(Dates)]

Ranges == [startDate : Opt(Dates), endDate : Opt(Dates)]

NextFaults ==
    \/ Idle /\ \E h \in Headers : SrvList(h)
    \/ Idle /\ \E h \in Headers, b \in FaultBodies, now \in Dates : SrvCreate(h, b, now)
    \/ Idle /\ \E h \in Headers, id \in IdParams : SrvGetOne(h, id)
    \/ Idle /\ \E h \in Headers, id \in IdParams, b \in FaultBodies : SrvUpdate(h, id, b)
    \/ Idle /\ \E h \in Headers, id \in IdParams : SrvDelete(h, id)
    \/ Idle /\ \E h \in Headers, q \in Ranges : SrvGetStats(h, q)
    \/ Idle /\ \E h \in Headers, q \in Ranges : P1GetStats(h, q)
    \/ Idle /\ \E h \in Headers : P1List(h)
    \/ Idle /\ \E h \in Headers, b \in FaultBodies, now \in Dates : P1Create(h, b, now)
    \/ Idle /\ \E h \in Headers, id \in IdParams : P1GetOne(h, id)
    \/ Idle /\ \E h \in Headers, id \in IdParams, b \in FaultBodies : P1Update(h, id, b)
    \/ Idle /\ \E h \in Headers, id \in IdParams : P1Delete(h, id)
    \/ Idle /\ TxFails
    \/ Idle /\ TxRecovers
    \/ RequestEnds

SpecFaults == Init /\ [][NextFaults]_vars

\* The specification of rejected requests: updates that name a valid type
\* together with an invalid amount, among the requests of both routers.
ErrorBodies ==
    [userId : {None}, type : Opt(Types), amount : Opt({-1, 1}),
     category : {Some("food")}, note : {None}, date : {None}]

NextErrors ==
    \/ Idle /\ \E h \in Headers : SrvList(h)
    \/ Idle /\ \E h \in Headers, b \in ErrorBodies, now \in Dates : SrvCreate(h, b, now)
    \/ Idle /\ \E h \in Headers, id \in IdParams : SrvGetOne(h, id)
    \/ Idle /\ \E h \in Headers, id \in IdParams, b \in ErrorBodies : SrvUpdate(h, id, b)
    \/ Idle /\ \E h \in Headers, id \in IdParams : SrvDelete(h, id)
    \/ Idle /\ \E h \in Headers : P1List(h)
    \/ Idle /\ \E h \in Headers, b \in ErrorBodies, now \in Dates : P1Create(h, b, now)
    \/ Idle /\ \E h \in Headers, id \in IdParams : P1GetOne(h, id)
    \/ Idle /\ \E h \in Headers, id \in IdParams, b \in ErrorBodies : P1Update(h, id, b)
    \/ Idle /\ \E h \in Headers, id \in IdParams : P1Delete(h, id)
    \/ RequestEnds

SpecErrors == Init /\ [][NextErrors]_vars

\* The specification of the aggregation: every array of up to MaxFetched
\* transactions, in every order, handed to the aggregation of either router.
\* The array is built one document at a time, as find() reads its cursor.
InitAggregate ==
    /\ users = Users
    /\ store = <<>>
    /\ nextId = 0
    /\ strictQuery = TRUE
    /\ txDown = FALSE
    /\ req = NoReq
    /\ res = NoRes
    /\ range = NoRange
    /\ fetched = <<>>
    /\ stats = None
    /\ ClientAtRest

NextAggregate ==
    \/ \E t \in StatTxs : Fetch(t)
    \/ P1Aggregate
    \/ SrvAggregate

SpecAggregate == InitAggregate /\ [][NextAggregate]_vars

\* The specification of the top categories: arrays long enough to hold more
\* than topCount categories, handed to the aggregation of either router.
NextTop ==
    \/ \E t \in TopTxs : FetchLabelled(t)
    \/ P1Aggregate
    \/ SrvAggregate

SpecTop == InitAggregate /\ [][NextTop]_vars

\* the server with nothing stored and no request being served
ServerAtRest ==
    /\ users = Users
    /\ store = <<>>
    /\ nextId = 0
    /\ strictQuery = TRUE
    /\ txDown = FALSE
    /\ req = NoReq
    /\ res = NoRes
    /\ range = NoRange
    /\ fetched = <<>>
    /\ stats = None

\* The specification of AuthProvider: the page loads with or without a token
\* in local storage; the pages call login, register and logout whenever they
\* are drawn, and every response arrives at any time, as success or failure.
InitAuthProvider ==
    /\ ServerAtRest
    /\ ReportsStart
    /\ \E tok \in Opt(Users) : AuthProviderStart(tok)

NextAuthProvider ==
    \/ MountEffect
    \/ \E i \in DOMAIN authPending, ok \in BOOLEAN : fetchUserProfile(i, ok)
    \/ \E u \in Users : login(u)
    \/ \E u \in Users : register(u)
    \/ \E i \in DOMAIN authPending, ok \in BOOLEAN : Submitted(i, ok)
    \/ logout

SpecAuthProvider == InitAuthProvider /\ [][NextAuthProvider]_vars

\* The specification of the Reports page: one visit, from its first render;
\* the range is selected whenever the selector is drawn, and every response
\* arrives at any time, as success or failure.
InitReports ==
    /\ ServerAtRest
    /\ AuthProviderStart(None)
    /\ ReportsStart

NextReports ==
    \/ ReportsMountEffect
    \/ \E r \in DateRanges : SelectRange(r)
    \/ \E p \in statsPending, ok \in BOOLEAN : fetchStatsResumes(p, ok)

SpecReports == InitReports /\ [][NextReports]_vars

-----------------------------------------------------------------------------
(* Properties                                                              *)

\* the request just served came with a token that auth resolved to a user
Authenticated == req # NoReq /\ res.user # None

SingleOps == {"get", "update", "delete"}

\* C1: a request of user A to read, update or delete an existing transaction
\* owned by another user B returns no document, leaves the store as it was
\* and is answered 403 or 404.
C1_ForeignAccessDenied ==
    [][(/\ req' # NoReq
        /\ req'.op \in SingleOps
        /\ res'.user # None
        /\ req'.id \in DOMAIN store
        /\ store[req'.id]["userId"] # res'.user)
       => (/\ store' = store
           /\ res'.docs = <<>>
           /\ res'.status \in {403, 404})]_vars

\* C2: the transaction a create request persists is owned by the user the
\* request was authenticated as, whatever the body says.
C2_CreateOwnerIsCaller ==
    (req.op = "create" /\ res.status = 201)
        => store[res.docs[1]._id]["userId"] = res.user

\* C3: no step changes the owner of a stored transaction: from its creation
\* on, and through every update request, a transaction keeps its userId.
C3_OwnerImmutable ==
    [][\A id \in DOMAIN store \cap DOMAIN store' :
            store'[id]["userId"] = store[id]["userId"]]_vars

\* C3 witness: the owner's update whose body names another user succeeded,
\* and the transaction still belongs to the caller.
C3_Witness ==
    /\ req.op = "update"
    /\ res.status = 200
    /\ req.body.userId # None
    /\ req.body.userId # res.user
    /\ store[req.id]["userId"] = res.user

\* the inputs that C4 says create must reject
C4_BadInput(b) ==
    \/ b.type = None \/ b.amount = None \/ b.category = None
    \/ b.type[1] \notin Types
    \/ b.amount[1] <= 0

\* C4: an authenticated create answers 400 and persists nothing when type,
\* amount or category is missing, type is not income/expense or amount <= 0;
\* for every other input it persists the record and returns it with 201.
C4_CreateValidates ==
    [][(req' # NoReq /\ req'.op = "create" /\ res'.user # None)
       => IF C4_BadInput(req'.body)
          THEN res'.status = 400 /\ store' = store
          ELSE /\ res'.status = 201
               /\ Len(res'.docs) = 1
               /\ res'.docs[1]._id \in DOMAIN store' \ DOMAIN store
               /\ res'.docs[1] = Json(res'.docs[1]._id, store'[res'.docs[1]._id])
               /\ res'.docs[1].type = req'.body.type
               /\ res'.docs[1].amount = req'.body.amount
               /\ res'.docs[1].category = req'.body.category]_vars

\* C5: every stored transaction has amount > 0 and type income or expense.
C5_StoredAmountAndType ==
    \A id \in DOMAIN store :
        /\ store[id]["amount"] # None /\ store[id]["amount"][1] > 0
        /\ store[id]["type"] # None /\ store[id]["type"][1] \in Types

\* the three checks of C6, read off the request and the credential store
C6_NoToken(h) == ~h.present \/ h.token.sig = "empty"
C6_BadSignatureOrExpiry(h) == h.token.sig \in {"expired", "forged"}
C6_UnknownUser(h) == h.token.userId \notin users

\* C6: auth answers 401 and nothing downstream runs when the request has no
\* token, when the token's signature or expiry is bad, or when its user is
\* not in the credential store; otherwise the resolved user is attached to
\* the request and the next stage runs.
C6_AuthGate ==
    req # NoReq =>
        IF \/ C6_NoToken(req.header)
           \/ C6_BadSignatureOrExpiry(req.header)
           \/ C6_UnknownUser(req.header)
        THEN res.status = 401 /\ res.reached = "auth" /\ res.user = None /\ res.docs = <<>>
        ELSE res.reached \in {"ownership", "handler"}
             /\ res.user = Some(req.header.token.userId)
             /\ res.status # 401

\* C6 witness: a request with an expired token was stopped by auth.
C6_Witness ==
    /\ req # NoReq
    /\ req.header.token.sig = "expired"
    /\ req.header.token.userId \in users
    /\ res.status = 401
    /\ res.reached = "auth"

\* C7: a request that presents the well-signed, unexpired token of a user
\* who is no longer in the credential store is answered 401 by auth, returns
\* no document and leaves every transaction as it was.
C7_DeletedUserFailsClosed ==
    [][(/\ req' # NoReq
        /\ req'.header.present
        /\ req'.header.token.sig = "ok"
        /\ req'.header.token.userId \notin users)
       => (/\ res'.status = 401
           /\ res'.reached = "auth"
           /\ res'.docs = <<>>
           /\ store' = store)]_vars

\* C7 witness: the token of a deleted user, whose transactions are still
\* stored, was refused.
C7_Witness ==
    /\ req # NoReq
    /\ req.header.token.sig = "ok"
    /\ req.header.token.userId \notin users
    /\ \E id \in DOMAIN store : store[id]["userId"] = Some(req.header.token.userId)
    /\ res.status = 401

\* C8: on the routes guarded by verifyTransactionOwnership, an authenticated
\* request for a well-formed id gets 404 when no transaction has that id,
\* 403 when the transaction belongs to another user, and reaches the route
\* handler, with no error, when the transaction is the caller's own.
C8_OwnershipCheck ==
    [][(/\ req' # NoReq
        /\ req'.router = "server"
        /\ req'.op \in SingleOps
        /\ req'.id \in TxIds
        /\ res'.user # None)
       => IF req'.id \notin DOMAIN store THEN res'.status = 404
          ELSE IF store[req'.id]["userId"] # res'.user THEN res'.status = 403
          ELSE res'.reached = "handler" /\ res'.status = 200]_vars

\* C9: an authenticated DELETE for an id that matches no stored transaction
\* is answered 404 and leaves the store unchanged.
C9_DeleteMissingIs404 ==
    [][(/\ req' # NoReq
        /\ req'.op = "delete"
        /\ res'.user # None
        /\ req'.id \notin DOMAIN store)
       => (res'.status = 404 /\ store' = store)]_vars

\* C10: the list route returns exactly the stored transactions of the
\* authenticated user, each once, ordered by date descending.
C10_ListIsOwnByDateDesc ==
    (req.op = "list" /\ res.status = 200) =>
        LET own == {i \in DOMAIN store : store[i]["userId"] = res.user}
            n == Len(res.docs)
        IN  /\ n = Cardinality(own)
            /\ {res.docs[k]._id : k \in 1..n} = own
            /\ \A k \in 1..n : res.docs[k] = Json(res.docs[k]._id, store[res.docs[k]._id])
            /\ \A k \in 1..(n - 1) : res.docs[k].date[1] >= res.docs[k + 1].date[1]


\* the request being answered is a PUT /:id whose caller owns the document
OwnerUpdate ==
    /\ req = NoReq
    /\ req'.op = "update"
    /\ req'.id \in DOMAIN store
    /\ res'.user # None
    /\ store[req'.id]["userId"] = res'.user

\* C11: an update by the owner is partial: a field of type, amount, category,
\* note and date that the body leaves out keeps its stored value, and a type
\* outside {income, expense} or an amount that is not positive is answered 400
\* and changes nothing.
C11_PartialUpdate ==
    [][OwnerUpdate =>
         /\ req'.id \in DOMAIN store'
         /\ \A p \in P1UpdatedFields :
               req'.body[p] = None => store'[req'.id][p] = store[req'.id][p]
         /\ P1UpdateRejects(req'.body) => res'.status = 400 /\ store' = store]_vars


\* the request being served fails validation: a create without type, amount
\* or category, or a create or an owner's update with a type outside
\* {income, expense} or an amount that is not positive
C12_ValidationFails ==
    \/ req.op = "create" /\ C4_BadInput(req.body)
    \/ /\ req.op = "update"
       /\ req.id \in DOMAIN store
       /\ store[req.id]["userId"] = res.user
       /\ P1UpdateRejects(req.body)

\* C12: on create, update, delete, list and stats a validation failure is
\* answered 400 and a failure of the store is answered 500: while the store
\* works an invalid request gets 400 (never 500), and while the store is out
\* of reach a valid request gets 500 (never 400).
C12_ErrorStatus ==
    (req.op \in {"create", "update", "delete", "list", "stats"} /\ res.user # None) =>
        /\ (~txDown /\ C12_ValidationFails) => res.status = 400
        /\ (txDown /\ ~C12_ValidationFails) => res.status = 500


\* the sum of the amounts of the transactions of f at the positions I
RECURSIVE AmountOver(_, _)
AmountOver(f, I) ==
    IF I = {} THEN 0
    ELSE LET i == CHOOSE k \in I : TRUE
         IN  f[i]["amount"][1] + AmountOver(f, I \ {i})

\* the positions of the fetched transactions of type t
OfType(t) == {i \in 1..Len(fetched) : fetched[i]["type"] = Some(t)}

\* a stats answer has been computed
Answered == stats # None

\* C13: in every stats answer totalIncome is the sum of the fetched income
\* amounts, totalExpense the sum of the fetched expense amounts, and
\* netBalance = totalIncome - totalExpense.
C13_NetBalance ==
    Answered =>
        LET s == stats[1].body.summary
        IN  /\ s.totalIncome = AmountOver(fetched, OfType("income"))
            /\ s.totalExpense = AmountOver(fetched, OfType("expense"))
            /\ s.netBalance = s.totalIncome - s.totalExpense

\* an answer over income and expenses, the expenses being the larger
C13_Witness ==
    /\ Answered
    /\ OfType("income") # {}
    /\ OfType("expense") # {}
    /\ stats[1].body.summary.netBalance < 0


\* the sum of the field p over the records of s
RECURSIVE FieldSum(_, _)
FieldSum(s, p) == IF s = <<>> THEN 0 ELSE Head(s)[p] + FieldSum(Tail(s), p)

\* every record of s has the fields P
HasFields(s, P) == \A i \in 1..Len(s) : P \subseteq DOMAIN s[i]

\* C14: in every stats answer the category totals and the monthly income and
\* expense each add up to totalIncome + totalExpense.
C14_SumsAgree ==
    Answered =>
        LET b == stats[1].body
            all == b.summary.totalIncome + b.summary.totalExpense
        IN  /\ HasFields(b.categoryData, {"total"})
            /\ FieldSum(b.categoryData, "total") = all
            /\ FieldSum(b.monthlyData, "income") + FieldSum(b.monthlyData, "expense") = all


\* the months in which a fetched transaction is dated
FetchedMonths == {MonthKey(fetched[i]["date"][1]) : i \in 1..Len(fetched)}

\* C15: monthlyData has one record for each month in which a fetched
\* transaction is dated and none for any other month, and its records are in
\* ascending order of month, in whatever order the transactions were fetched.
C15_MonthsSorted ==
    Answered =>
        LET md == stats[1].body.monthlyData
        IN  /\ {md[i].month : i \in 1..Len(md)} = FetchedMonths
            /\ Len(md) = Cardinality(FetchedMonths)
            /\ \A i, j \in 1..Len(md) : i < j => md[i].month < md[j].month

\* an answer over transactions fetched with a later month before an earlier
C15_Witness ==
    /\ Answered
    /\ Len(stats[1].body.monthlyData) = 2
    /\ \E i, j \in 1..Len(fetched) :
          i < j /\ MonthKey(fetched[i]["date"][1]) > MonthKey(fetched[j]["date"][1])


\* the positions of the fetched transactions of type t dated in month m
OfTypeIn(t, m) == {i \in OfType(t) : MonthKey(fetched[i]["date"][1]) = m}

\* C16: each monthly record carries the sum of the income amounts and the sum
\* of the expense amounts of the fetched transactions of its month, and
\* balance = income - expense.
C16_MonthlyTotals ==
    Answered =>
        LET md == stats[1].body.monthlyData
        IN  \A i \in 1..Len(md) :
               /\ md[i].income = AmountOver(fetched, OfTypeIn("income", md[i].month))
               /\ md[i].expense = AmountOver(fetched, OfTypeIn("expense", md[i].month))
               /\ md[i].balance = md[i].income - md[i].expense

\* the example of the claim with the amounts of the model: an income of 100
\* and an expense of 40 on two days of one month and an expense of 40 in the
\* next give the records (100, 40, 60) and (0, 40, -40) and the summary
\* (100, 80, 20)
C16_Witness ==
    /\ Answered
    /\ Len(fetched) = 3
    /\ <<fetched[1]["type"], fetched[1]["amount"], fetched[1]["date"]>>
          = <<Some("income"), Some(100), Some(1)>>
    /\ <<fetched[2]["type"], fetched[2]["amount"], fetched[2]["date"]>>
          = <<Some("expense"), Some(40), Some(2)>>
    /\ <<fetched[3]["type"], fetched[3]["amount"], fetched[3]["date"]>>
          = <<Some("expense"), Some(40), Some(3)>>
    /\ stats[1].body.monthlyData
          = <<[month |-> 1, income |-> 100, expense |-> 40, balance |-> 60],
              [month |-> 2, income |-> 0, expense |-> 40, balance |-> -40]>>
    /\ stats[1].body.summary
          = [totalIncome |-> 100, totalExpense |-> 80, netBalance |-> 20]


\* the category labels of the fetched transactions
FetchedCategories == {fetched[i]["category"][1] : i \in 1..Len(fetched)}

\* the positions of the fetched transactions of type t in category c
OfTypeOf(t, c) == {i \in OfType(t) : fetched[i]["category"] = Some(c)}

\* C17: categoryData has one entry {category, income, expense, total} for each
\* category label of the fetched transactions, the categories that only have
\* income included, with the sums of the category and total = income + expense.
C17_CategoryEntries ==
    Answered =>
        LET cd == stats[1].body.categoryData
        IN  /\ {cd[i].category : i \in 1..Len(cd)} = FetchedCategories
            /\ Len(cd) = Cardinality(FetchedCategories)
            /\ HasFields(cd, {"category", "income", "expense", "total"})
            /\ \A i \in 1..Len(cd) :
                  /\ cd[i].income = AmountOver(fetched, OfTypeOf("income", cd[i].category))
                  /\ cd[i].expense = AmountOver(fetched, OfTypeOf("expense", cd[i].category))
                  /\ cd[i].total = cd[i].income + cd[i].expense


\* the transactions of the caller that are dated within the range asked for
OwnInRange ==
    {i \in DOMAIN store :
        /\ store[i]["userId"] = res.user
        /\ range.startDate = None \/ store[i]["date"][1] >= range.startDate[1]
        /\ range.endDate = None \/ store[i]["date"][1] <= range.endDate[1]}

\* C18: a stats request aggregates exactly the caller's transactions with
\* startDate <= date <= endDate, each bound applying only when supplied: no
\* transaction of another user and none dated after endDate is fetched.
C18_FetchedSet ==
    (req.op = "stats" /\ res.status = 200) =>
        /\ {fetched[k]["_id"] : k \in 1..Len(fetched)} = OwnInRange
        /\ Len(fetched) = Cardinality(OwnInRange)


\* the fetched transactions in every order in which the store may return them
Reorderings ==
    {[k \in 1..Len(fetched) |-> fetched[p[k]]] : p \in Perms(1..Len(fetched))}

\* the body that the router r answers for the array g
StatsBodyOf(r, g) == IF r = "part_001" THEN P1StatsBody(g) ELSE SrvStatsBody(g)

\* C19: the stats answer depends on the fetched set alone: the same router
\* gives the same body, with every array in the same order, for the same
\* transactions returned by the store in any other order.
C19_OrderIndependent ==
    Answered =>
        \A g \in Reorderings : StatsBodyOf(stats[1].router, g) = stats[1].body


\* C20: over an empty fetched set the totals and netBalance are 0 and
\* categoryData and monthlyData are empty; a month or a category whose
\* transactions are all of one type has a record that carries the field of the
\* other type with the value 0.
C20_EmptyAndZero ==
    Answered =>
        LET b == stats[1].body
        IN  /\ fetched = <<>> =>
                  /\ b.summary = [totalIncome |-> 0, totalExpense |-> 0, netBalance |-> 0]
                  /\ b.categoryData = <<>>
                  /\ b.monthlyData = <<>>
            /\ \A m \in FetchedMonths, t \in Types :
                  OfTypeIn(t, m) = {} =>
                      \E i \in 1..Len(b.monthlyData) :
                          /\ b.monthlyData[i].month = m
                          /\ t \in DOMAIN b.monthlyData[i]
                          /\ b.monthlyData[i][t] = 0
            /\ \A c \in FetchedCategories, t \in Types :
                  OfTypeOf(t, c) = {} =>
                      \E i \in 1..Len(b.categoryData) :
                          /\ b.categoryData[i].category = c
                          /\ t \in DOMAIN b.categoryData[i]
                          /\ b.categoryData[i][t] = 0


\* the answer carries the derived views topCategories and monthlyTrend
HasViews == Answered /\ {"topCategories", "monthlyTrend"} \subseteq DOMAIN stats[1].body

\* the least of two numbers
Least(a, b) == IF a < b THEN a ELSE b

\* the total of the fetched transactions of category c
TotalOf(c) ==
    AmountOver(fetched, {i \in 1..Len(fetched) : fetched[i]["category"] = Some(c)})

StatsRequest == req.op = "stats" \/ req.id = StatsId

\* C22: a GET /stats of an authenticated user is handled by the statistics
\* handler and answered {summary, categoryData, monthlyData} (the store being
\* in reach); it is never handled as the read of a transaction with id "stats".
C22_StatsDispatch ==
    (StatsRequest /\ res.user # None /\ ~txDown) =>
        /\ req.op = "stats"
        /\ res.status = 200
        /\ stats # None
        /\ {"summary", "categoryData", "monthlyData"} \subseteq DOMAIN stats[1].body


\* the ids of the transactions that were stored once and are gone
Gone == (1..nextId) \ DOMAIN store

\* a request is taken up and answered in this step
Served == req = NoReq /\ req' # NoReq

\* C23: once an owner's DELETE /:id has been answered with success the
\* transaction is no longer stored and no other transaction was removed or
\* changed; it never comes back; no later list, read or stats answer holds a
\* transaction that is not stored; and a later read, update or delete of its
\* id by an authenticated user is answered 404 (the store being in reach).
C23_DeleteIsFinal ==
    [][/\ (Served /\ req'.op = "delete" /\ res'.status = 200) =>
             /\ req'.id \in DOMAIN store
             /\ store[req'.id]["userId"] = res'.user
             /\ DOMAIN store' = DOMAIN store \ {req'.id}
             /\ \A i \in DOMAIN store' : store'[i] = store[i]
       /\ Gone \subseteq (1..nextId') \ DOMAIN store'
       /\ Served =>
             /\ \A k \in 1..Len(res'.docs) : res'.docs[k]["_id"] \in DOMAIN store'
             /\ \A k \in 1..Len(fetched') : fetched'[k]["_id"] \in DOMAIN store'
       /\ (Served /\ req'.op \in SingleOps /\ req'.id \in Gone /\ res'.user # None /\ ~txDown) =>
             /\ res'.status = 404
             /\ res'.docs = <<>>
             /\ store' = store]_vars

\* a read of a deleted transaction answered 404 while another is stored
C23_Witness ==
    /\ req.op = "get"
    /\ req.id \in Gone
    /\ res.user # None
    /\ res.status = 404
    /\ DOMAIN store # {}


\* C24: a request answered 400, 401, 403 or 404 leaves the stored
\* transactions exactly as they were; an update that names a valid type and
\* an invalid amount changes no field of the stored record.
C24_ErrorsChangeNothing ==
    [][(Served /\ res'.status \in {400, 401, 403, 404}) =>
           /\ store' = store
           /\ nextId' = nextId]_vars

\* an owner's update with a valid type other than the stored one and an
\* amount of -1, answered 400, the stored type being the old one
C24_Witness ==
    /\ req.op = "update"
    /\ req.id \in DOMAIN store
    /\ store[req.id]["userId"] = res.user
    /\ req.body.type # None
    /\ req.body.type[1] \in Types
    /\ req.body.type # store[req.id]["type"]
    /\ req.body.amount = Some(-1)
    /\ res.status = 400


\* C25: in AuthProvider, whenever user is non-null a token is present in
\* local storage, and once logout has been called and neither login nor
\* register has been called since, user is null.
C25_SessionConsistent ==
    /\ isAuthenticated => storedToken # None
    /\ loggedOut => currentUser = None


====
